---- MODULE Spec2Model ----
(***************************************************************************)
(* Model of fast_transformers/core/tensor.h: the DLPack descriptor        *)
(* factory CreateDLPackTensor<T>, the owning wrapper class Tensor and the  *)
(* type registry DataTypeTrait / IsDataType.                               *)
(*                                                                         *)
(* Machine integers wider than TLC's own are kept as little-endian         *)
(* sequences of base-2^8 limbs: a 32-bit int is 4 limbs, a 64-bit          *)
(* int64_t / size_t is 8 limbs, and arithmetic is done limb by limb so     *)
(* that truncation and wrap-around happen where the C++ types make them    *)
(* happen.                                                                 *)
(***************************************************************************)
EXTENDS Integers, Sequences, FiniteSets, TLC

VARIABLES desc, tensors, out, exported, crashed

vars == <<desc, tensors, out, exported, crashed>>

----------------------------------------------------------------------------
(* Bounds of the model *)

MaxDescs == 2
MaxHandles == 2
MaxRank == 2
MaxPrintNumel == 16

Descs == 1..MaxDescs
Handles == 1..MaxHandles

(* nullptr *)
Null == 0

----------------------------------------------------------------------------
(* Fixed-width arithmetic on limb sequences *)

IntLimbs == 4
Int64Limbs == 8

(* Limbs wide enough to hold the exact product of MaxRank dimensions < 2^31 *)
WideLimbs == 4 * MaxRank + 8

(* the n-limb two's complement representation of x, -2^31 <= x < 2^31 *)
ToLimbs(x, n) ==
  [i \in 1..n |-> IF i <= 4 THEN (x \div (2^8)^(i-1)) % 2^8
                  ELSE IF x < 0 THEN 2^8 - 1 ELSE 0]

ZeroLimbs(n) == [i \in 1..n |-> 0]

RECURSIVE ColSum(_, _, _, _)
ColSum(a, b, k, i) ==
  IF i > k THEN 0 ELSE a[i] * b[k + 1 - i] + ColSum(a, b, k, i + 1)

RECURSIVE MulFrom(_, _, _, _, _)
MulFrom(a, b, n, k, carry) ==
  IF k > n THEN <<>>
  ELSE LET s == carry + ColSum(a, b, k, 1)
       IN  <<s % 2^8>> \o MulFrom(a, b, n, k + 1, s \div 2^8)

(* the low n limbs of a * b: multiplication modulo 2^(8n) *)
MulLimbs(a, b, n) == MulFrom(a, b, n, 1, 0)

(* int -> int64_t / size_t: sign extension *)
SignExtend(a) ==
  a \o [i \in 1..(Int64Limbs - IntLimbs) |-> IF a[IntLimbs] >= 2^7 THEN 2^8 - 1 ELSE 0]

(* int64_t -> int: the low 32 bits *)
TruncToInt(a) == SubSeq(a, 1, IntLimbs)

(* zero extension of a limb sequence to n limbs *)
Widen(a, n) == a \o ZeroLimbs(n - Len(a))

(* the value of a limb sequence known to be below 2^8 *)
IsSmall(a) == \A i \in 2..Len(a) : a[i] = 0
SmallValue(a) == a[1]

(* the exact (unbounded) product of a shape list, WideLimbs wide *)
RECURSIVE ExactProduct(_)
ExactProduct(s) ==
  IF s = <<>> THEN ToLimbs(1, WideLimbs)
  ELSE MulLimbs(ExactProduct(Tail(s)), ToLimbs(Head(s), WideLimbs), WideLimbs)

FitsIn64(w) == \A i \in (Int64Limbs + 1)..Len(w) : w[i] = 0

----------------------------------------------------------------------------
(* DLPack enumerations and the type registry *)

kDLInt == 0
kDLUInt == 1
kDLFloat == 2
kDLCPU == 1

Types == {"float", "int", "int64_t"}

DataTypeTrait(T) ==
  CASE T = "float" -> kDLFloat
    [] T = "int" -> kDLInt
    [] T = "int64_t" -> kDLInt

SizeOf(T) ==
  CASE T = "float" -> 4
    [] T = "int" -> 4
    [] T = "int64_t" -> 8

(* IsDataType comparing the type-code alone *)
IsDataType_CodeOnly(T, dt) == DataTypeTrait(T) = dt.code

IsDataType(T, dt) ==
  /\ DataTypeTrait(T) = dt.code
  /\ (dt.bits = 0 \/ dt.bits = SizeOf(T) * 8)

----------------------------------------------------------------------------
(* Descriptors (DLManagedTensor) *)

(* contents of a data buffer: element i (from 0) of a buffer holding pattern m *)
Elem(m, i) ==
  CASE m = "iota" -> i + 1
    [] m = "ones" -> 1
    [] m = "zeros" -> 0

(* what a buffer fresh from align_alloc_t may hold: it is not initialised *)
UninitPatterns == {"zeros", "ones"}

NoDesc ==
  [st |-> "none", shape |-> <<>>, ndim |-> 0,
   dtype |-> [code |-> 0, bits |-> 0, lanes |-> 0],
   ctx |-> [device_type |-> 0, device_id |-> 0],
   strides_null |-> TRUE, strides |-> <<>>, byte_offset |-> 0,
   data |-> Null, alloc |-> ZeroLimbs(Int64Limbs), mem |-> "zeros",
   deleter_calls |-> 0]

(* std::accumulate(begin, end, 1, std::multiplies<int64_t>()): the accumulator
   has the type of the initial value 1, an int; each step multiplies in
   int64_t and stores the product back into the int *)
RECURSIVE Accumulate(_, _)
Accumulate(s, acc) ==
  IF s = <<>> THEN acc
  ELSE Accumulate(Tail(s),
         TruncToInt(MulLimbs(SignExtend(acc), ToLimbs(Head(s), Int64Limbs), Int64Limbs)))

(* size_t numel = std::accumulate(...) *)
FactoryNumel(shape_list) == SignExtend(Accumulate(shape_list, ToLimbs(1, IntLimbs)))

(* the descriptor CreateDLPackTensor<T> builds at address d; m is what the
   uninitialised buffer happens to hold *)
CreateDLPackTensor(T, shape_list, d, m) ==
  [st |-> "live", shape |-> shape_list, ndim |-> Len(shape_list),
   dtype |-> [code |-> DataTypeTrait(T), bits |-> SizeOf(T) * 8, lanes |-> 1],
   ctx |-> [device_type |-> kDLCPU, device_id |-> 0],
   strides_null |-> TRUE, strides |-> <<>>, byte_offset |-> 0,
   data |-> d, alloc |-> FactoryNumel(shape_list), mem |-> m,
   deleter_calls |-> 0]

(* details::DLManagedTensorDeletor, and any deleter of a received descriptor:
   frees the arrays and the buffer of the descriptor it is called on *)
DLManagedTensorDeletor(t) ==
  [t EXCEPT !.st = "freed", !.deleter_calls = @ + 1]

----------------------------------------------------------------------------
(* The result of the last operation *)

NoOut ==
  [op |-> "none", h |-> 0, src |-> 0, T |-> "", status |-> "ok", ptr |-> Null, val |-> 0,
   big |-> ZeroLimbs(Int64Limbs), label |-> "", strides_null |-> TRUE,
   strides |-> <<>>, shape |-> <<>>, listed |-> <<>>, sum |-> 0]

Result(op, h, status) == [NoOut EXCEPT !.op = op, !.h = h, !.status = status]

NoExport == [valid |-> FALSE, by |-> 0, ndim |-> 0, shape |-> <<>>,
             device_type |-> 0, data |-> Null]

Init ==
  /\ desc = [d \in Descs |-> NoDesc]
  /\ tensors = [h \in Handles |-> [st |-> "unborn", tensor_ |-> Null, calls |-> 0]]
  /\ out = NoOut
  /\ exported = [d \in Descs |-> NoExport]
  /\ crashed = FALSE

FreeDescs == {d \in Descs : desc[d].st = "none"}
LiveDescs == {d \in Descs : desc[d].st = "live"}
(* the pointers a caller can hold: descriptors that were ever allocated *)
KnownDescs == {d \in Descs : desc[d].st # "none"}
Unborn == {h \in Handles : tensors[h].st = "unborn"}
Alive == {h \in Handles : tensors[h].st = "alive"}

Min(S) == CHOOSE x \in S : \A y \in S : x <= y

(* the live descriptors that no Handle holds: the ones a caller may still
   give to a Handle, a fresh one or one that an export handed back *)
Unowned == {d \in LiveDescs : \A h \in Alive : tensors[h].tensor_ # d}

----------------------------------------------------------------------------
(* Factory and received descriptors *)

(* CreateDLPackTensor<T>(shape_list), returning the raw pointer *)
Create(T, shape_list, m) ==
  /\ ~crashed
  /\ IF Len(shape_list) = 0
       THEN /\ out' = Result("CreateDLPackTensor", 0, "InvalidArgument")
            /\ UNCHANGED <<desc, tensors, exported, crashed>>
       ELSE /\ FreeDescs # {}
            /\ LET d == Min(FreeDescs)
               IN  /\ desc' = [desc EXCEPT ![d] = CreateDLPackTensor(T, shape_list, d, m)]
                   /\ out' = [Result("CreateDLPackTensor", 0, "ok") EXCEPT !.ptr = d]
            /\ UNCHANGED <<tensors, exported, crashed>>

(* a descriptor built by another library arrives as a raw pointer *)
Receive(f) ==
  /\ ~crashed
  /\ FreeDescs # {}
  /\ LET d == Min(FreeDescs)
     IN  /\ desc' = [desc EXCEPT ![d] = [f EXCEPT !.data = d]]
         /\ out' = [Result("receive", 0, "ok") EXCEPT !.ptr = d]
  /\ UNCHANGED <<tensors, exported, crashed>>

----------------------------------------------------------------------------
(* class Tensor: construction, export, destruction *)

(* explicit Tensor(DLManagedTensor *tensor) : tensor_(tensor) {}; the
   constructor takes any pointer, one to a freed descriptor included *)
TensorCtor(p) == [st |-> "alive", tensor_ |-> p, calls |-> 0]

Wrap(p) ==
  /\ ~crashed
  /\ p \in {Null} \cup KnownDescs
  /\ Unborn # {}
  /\ LET h == Min(Unborn)
     IN  /\ tensors' = [tensors EXCEPT ![h] = TensorCtor(p)]
         /\ out' = [Result("Tensor", h, "ok") EXCEPT !.ptr = p]
  /\ UNCHANGED <<desc, exported, crashed>>

(* the values the accessors of a Handle on live descriptor t report *)
Snapshot(h, t) ==
  [valid |-> TRUE, by |-> h, ndim |-> t.ndim, shape |-> t.shape,
   device_type |-> t.ctx.device_type, data |-> t.data]

(* tensor_.release() *)
Release(hd) == [hd EXCEPT !.tensor_ = Null]

(* ToDLPack written with tensor_.reset() in place of tensor_.release(): the
   export runs the deleter *)
ToDLPack_Reset(h) ==
  /\ ~crashed
  /\ h \in Alive
  /\ LET p == tensors[h].tensor_
     IN  IF p = Null
           THEN /\ out' = Result("ToDLPack", h, "Precondition")
                /\ UNCHANGED <<desc, tensors, exported, crashed>>
           ELSE /\ tensors' = [tensors EXCEPT ![h] = Release(@)]
                /\ out' = [Result("ToDLPack", h, "ok") EXCEPT !.ptr = p]
                /\ desc' = [desc EXCEPT ![p] = DLManagedTensorDeletor(@)]
                /\ UNCHANGED <<exported, crashed>>

(* ToDLPack that resets the dimension count of the descriptor it hands out *)
ToDLPack_Clears(h) ==
  /\ ~crashed
  /\ h \in Alive
  /\ LET p == tensors[h].tensor_
     IN  IF p = Null
           THEN /\ out' = Result("ToDLPack", h, "Precondition")
                /\ UNCHANGED <<desc, tensors, exported, crashed>>
           ELSE /\ tensors' = [tensors EXCEPT ![h] = Release(@)]
                /\ out' = [Result("ToDLPack", h, "ok") EXCEPT !.ptr = p]
                /\ exported' = IF desc[p].st = "live"
                                 THEN [exported EXCEPT ![p] = Snapshot(h, desc[p])]
                                 ELSE exported
                /\ desc' = [desc EXCEPT ![p].ndim = 0]
                /\ UNCHANGED crashed

(* ToDLPack without its FT_ENFORCE_NE: an empty Handle hands out nullptr *)
ToDLPack_NoEnforce(h) ==
  /\ ~crashed
  /\ h \in Alive
  /\ LET p == tensors[h].tensor_
     IN  /\ tensors' = [tensors EXCEPT ![h] = Release(@)]
         /\ out' = [Result("ToDLPack", h, "ok") EXCEPT !.ptr = p]
         /\ exported' = IF p # Null /\ desc[p].st = "live"
                          THEN [exported EXCEPT ![p] = Snapshot(h, desc[p])]
                          ELSE exported
         /\ UNCHANGED <<desc, crashed>>

(* DLManagedTensor *ToDLPack() *)
ToDLPack(h) ==
  /\ ~crashed
  /\ h \in Alive
  /\ LET p == tensors[h].tensor_
     IN  IF p = Null
           THEN /\ out' = Result("ToDLPack", h, "Precondition")
                /\ UNCHANGED <<desc, tensors, exported, crashed>>
           ELSE /\ tensors' = [tensors EXCEPT ![h] = Release(@)]
                /\ out' = [Result("ToDLPack", h, "ok") EXCEPT !.ptr = p]
                /\ exported' = IF desc[p].st = "live"
                                 THEN [exported EXCEPT ![p] = Snapshot(h, desc[p])]
                                 ELSE exported
                /\ UNCHANGED <<desc, crashed>>

(* details::DLPackManagedTensorDeleter::operator(): how many times the
   functor invokes tensor->deleter(tensor) on pointer p *)
DeleterInvocations(p) == IF p = Null THEN 0 ELSE 1

(* ~Tensor(): the unique_ptr runs its deleter on the pointer it still holds.
   Invoking the deleter of a descriptor that was already freed through
   another Handle is a double free: the process may die or carry on. *)
Destroy(h) ==
  /\ ~crashed
  /\ h \in Alive
  /\ LET p == tensors[h].tensor_
         n == DeleterInvocations(p)
     IN  /\ tensors' = [tensors EXCEPT ![h].st = "destroyed", ![h].calls = @ + n]
         /\ out' = [Result("~Tensor", h, "ok") EXCEPT !.ptr = p, !.val = n]
         /\ IF n = 0
              THEN UNCHANGED <<desc, crashed>>
              ELSE /\ desc' = [desc EXCEPT ![p] = DLManagedTensorDeletor(@)]
                   /\ IF desc[p].st = "live"
                        THEN UNCHANGED crashed
                        ELSE crashed' \in BOOLEAN
  /\ UNCHANGED exported

(* the implicitly declared Tensor(Tensor&&): the class declares no copy or
   move operation and no destructor and its only member is a unique_ptr, so
   Tensor b(std::move(a)) gives b the pointer of a and leaves a empty *)
MoveConstruct(a) ==
  /\ ~crashed
  /\ a \in Alive
  /\ Unborn # {}
  /\ LET b == Min(Unborn)
         p == tensors[a].tensor_
     IN  /\ tensors' = [tensors EXCEPT ![b] = TensorCtor(p), ![a] = Release(@)]
         /\ out' = [Result("move_ctor", b, "ok") EXCEPT !.src = a, !.ptr = p]
  /\ UNCHANGED <<desc, exported, crashed>>

(* the implicitly declared Tensor& operator=(Tensor&&): a = std::move(b) is
   a.tensor_.reset(b.tensor_.release()): b becomes empty, a holds the pointer
   of b, and the deleter runs on the pointer a held; a = std::move(a) changes
   nothing *)
MoveAssign(a, b) ==
  /\ ~crashed
  /\ a \in Alive
  /\ b \in Alive
  /\ LET old == tensors[a].tensor_
         p == tensors[b].tensor_
         n == IF a = b THEN 0 ELSE DeleterInvocations(old)
     IN  /\ out' = [Result("move_assign", a, "ok") EXCEPT !.src = b, !.ptr = p, !.val = n]
         /\ tensors' = IF a = b THEN tensors
                       ELSE [tensors EXCEPT ![b] = Release(@),
                                            ![a].tensor_ = p, ![a].calls = @ + n]
         /\ IF n = 0
              THEN UNCHANGED <<desc, crashed>>
              ELSE /\ desc' = [desc EXCEPT ![old] = DLManagedTensorDeletor(@)]
                   /\ IF desc[old].st = "live"
                        THEN UNCHANGED crashed
                        ELSE crashed' \in BOOLEAN
  /\ UNCHANGED exported

----------------------------------------------------------------------------
(* class Tensor: accessors, as functions of the descriptor t behind tensor_ *)

n_dim(t) == t.ndim

shape(t, pos) == t.shape[pos + 1]

RECURSIVE NumelLoop(_, _, _)
NumelLoop(t, i, numel_) ==
  IF i >= n_dim(t) THEN numel_
  ELSE NumelLoop(t, i + 1,
         MulLimbs(numel_, ToLimbs(shape(t, i), Int64Limbs), Int64Limbs))

(* numel() with its accumulator declared int *)
numel_IntAccumulator(t) ==
  IF n_dim(t) = 0 THEN ZeroLimbs(Int64Limbs)
  ELSE SignExtend(TruncToInt(NumelLoop(t, 0, ToLimbs(1, Int64Limbs))))

numel(t) ==
  IF n_dim(t) = 0 THEN ZeroLimbs(Int64Limbs)
  ELSE NumelLoop(t, 0, ToLimbs(1, Int64Limbs))

(* FT_ENFORCE_EQ(t.byte_offset, 0, ...); FT_ENFORCE(IsDataType<T>(t.dtype), ...) *)
EnforceDataType(T, t) ==
  IF t.byte_offset # 0 THEN "TypeMismatch"
  ELSE IF ~IsDataType(T, t.dtype) THEN "TypeMismatch"
  ELSE "ok"

device_type(t) == t.ctx.device_type

TypeLabel(code) ==
  CASE code = kDLInt -> "type: int"
    [] code = kDLUInt -> "type: unsigned"
    [] code = kDLFloat -> "type float"
    [] OTHER -> "unrecoginized type"

(* int cnt = 10; double sum = 0.;
   for (int i = 0; i < numel(); ++i) {
     sum += data<T>()[i]; if (cnt-- >= 0) os << data<T>()[i] << ", "; } *)
RECURSIVE ElemLoop(_, _, _, _, _, _)
ElemLoop(m, n, i, cnt, sum, listed) ==
  IF i >= n THEN [listed |-> listed, sum |-> sum]
  ELSE ElemLoop(m, n, i + 1, cnt - 1, sum + Elem(m, i),
                IF cnt >= 0 THEN Append(listed, Elem(m, i)) ELSE listed)

ElemCount == 10

(* what Tensor::Print<T> writes for descriptor t, as fields of the result *)
PrintFields(T, t, r) ==
  LET nn == numel(t)
      n == SmallValue(nn)
      head == [r EXCEPT !.label = TypeLabel(t.dtype.code), !.big = nn,
                        !.val = n_dim(t), !.strides_null = t.strides_null,
                        !.strides = t.strides, !.shape = t.shape]
      l == ElemLoop(t.mem, n, 0, ElemCount, 0, <<>>)
  IN  IF n = 0 THEN head
      ELSE IF EnforceDataType(T, t) # "ok"
             THEN [head EXCEPT !.status = EnforceDataType(T, t)]
             ELSE [head EXCEPT !.listed = l.listed, !.sum = l.sum]

----------------------------------------------------------------------------
(* Calls of the accessors on a Handle *)

(* values a read through an invalid pointer may come back with *)
Garbage == {0, 1}

(* a read through a null or dangling tensor_ is undefined: the process dies,
   or the call comes back with a value that belongs to no descriptor *)
Undefined(op, h) ==
  \/ /\ out' = Result(op, h, "crash")
     /\ crashed' = TRUE
  \/ /\ \E g \in Garbage : out' = [Result(op, h, "garbage") EXCEPT !.val = g]
     /\ crashed' = FALSE

(* the descriptor behind the tensor_ of Handle h *)
Target(h) == desc[tensors[h].tensor_]

(* op called on Handle h: r is what the method returns from the descriptor
   behind tensor_, inbounds says that it reads inside the descriptor's arrays.
   None of the methods tests tensor_ before following it. *)
Call(op, h, inbounds, r) ==
  /\ ~crashed
  /\ h \in Alive
  /\ LET p == tensors[h].tensor_
         inside == IF p = Null THEN FALSE ELSE inbounds
     IN  \/ /\ inside
            /\ out' = r
            /\ crashed' = crashed
         \/ /\ IF p = Null THEN TRUE ELSE (desc[p].st = "freed" \/ ~inside)
            /\ Undefined(op, h)
  /\ UNCHANGED <<desc, tensors, exported>>

NDim(h) ==
  Call("n_dim", h, TRUE, [Result("n_dim", h, "ok") EXCEPT !.val = n_dim(Target(h))])

Shape(h, pos) ==
  Call("shape", h, pos < Len(Target(h).shape),
       [Result("shape", h, "ok") EXCEPT !.val = shape(Target(h), pos), !.ptr = pos])

Numel(h) ==
  Call("numel", h, TRUE, [Result("numel", h, "ok") EXCEPT !.big = numel(Target(h))])

TypedView(op, T, h, t) ==
  IF EnforceDataType(T, t) = "ok"
    THEN [Result(op, h, "ok") EXCEPT !.T = T, !.ptr = t.data]
    ELSE [Result(op, h, EnforceDataType(T, t)) EXCEPT !.T = T]

(* data<T>() taking the pointer out with tensor_.release() *)
Data_Releases(h, T) ==
  /\ ~crashed
  /\ h \in Alive
  /\ tensors[h].tensor_ # Null
  /\ desc[tensors[h].tensor_].st = "live"
  /\ out' = TypedView("data", T, h, Target(h))
  /\ tensors' = [tensors EXCEPT ![h].tensor_ = Null]
  /\ UNCHANGED <<desc, exported, crashed>>

Data(h, T) == Call("data", h, TRUE, TypedView("data", T, h, Target(h)))

MutableData(h, T) ==
  Call("mutableData", h, TRUE, TypedView("mutableData", T, h, Target(h)))

DeviceType(h) ==
  Call("device_type", h, TRUE,
       [Result("device_type", h, "ok") EXCEPT !.val = device_type(Target(h))])

(* descriptors small enough for the element loop of Print to be unrolled *)
RECURSIVE SmallProduct(_)
SmallProduct(s) == IF s = <<>> THEN 1 ELSE Head(s) * SmallProduct(Tail(s))

Printable(t) ==
  /\ \A i \in 1..Len(t.shape) : t.shape[i] <= MaxPrintNumel
  /\ SmallProduct(t.shape) <= MaxPrintNumel

(* Tensor::Print<T>(os); the loop reads numel() elements of the buffer *)
Describe(h, T) ==
  /\ tensors[h].tensor_ # Null => Printable(desc[tensors[h].tensor_])
  /\ Call("Print", h, Target(h).alloc = numel(Target(h)),
          PrintFields(T, Target(h), [Result("Print", h, "ok") EXCEPT !.T = T]))

(* the caller stores 1, 2, 3, ... through the pointer mutableData<T>() has
   just returned *)
WriteThrough(h) ==
  /\ ~crashed
  /\ h \in Alive
  /\ out.op = "mutableData" /\ out.h = h /\ out.status = "ok"
  /\ LET p == tensors[h].tensor_
     IN  /\ p # Null
         /\ desc[p].st = "live"
         /\ out.ptr = desc[p].data
         /\ desc' = [desc EXCEPT ![p].mem = "iota"]
  /\ out' = Result("write", h, "ok")
  /\ UNCHANGED <<tensors, exported, crashed>>

----------------------------------------------------------------------------
(* Inputs *)

(* row-major strides of a shape *)
RowMajor(s) == [i \in 1..Len(s) |-> SmallProduct(SubSeq(s, i + 1, Len(s)))]

(* a well-formed descriptor of another library: ndim is the length of its
   shape and its buffer holds the elements its shape announces *)
Foreign(code, bits, offset, s, strided) ==
  [st |-> "live", shape |-> s, ndim |-> Len(s),
   dtype |-> [code |-> code, bits |-> bits, lanes |-> 1],
   ctx |-> [device_type |-> kDLCPU, device_id |-> 0],
   strides_null |-> ~strided, strides |-> IF strided THEN RowMajor(s) ELSE <<>>,
   byte_offset |-> offset,
   data |-> Null,
   alloc |-> IF s = <<>> THEN ZeroLimbs(Int64Limbs)
             ELSE ToLimbs(SmallProduct(s), Int64Limbs),
   mem |-> "iota", deleter_calls |-> 0]

(* shapes of rank 0..n over a set of dimension sizes *)
ShapesOver(D, n) == UNION {[1..k -> D] : k \in 0..n}

(* the life cycle is exercised on tensors of one shape, the empty shape list
   the factory rejects, and a received zero-dimensional descriptor *)
LifeShapes == {<<>>, <<2, 3>>}
LifeTypes == {"float", "int64_t"}
LifePatterns == {"zeros"}
LifeForeign == {Foreign(kDLFloat, 32, 0, <<>>, FALSE)}

(* dimension sizes: small ones, and ones whose products pass 2^31 and 2^32 *)
Dims == {0, 1, 11, 32768, 65536}
DataShapes == ShapesOver(Dims, MaxRank)
DataForeign ==
  {Foreign(c, b, o, s, g) :
     c \in {kDLInt, kDLUInt, kDLFloat, kDLFloat + 1}, b \in {0, 32, 64},
     o \in {0, 4}, s \in {<<>>, <<5>>, <<2, 3>>}, g \in BOOLEAN}

----------------------------------------------------------------------------
(* Specifications *)

(* descriptors and Handles are created, wrapped, exported and destroyed *)
Next ==
  \/ \E T \in LifeTypes, s \in LifeShapes, m \in LifePatterns : Create(T, s, m)
  \/ \E f \in LifeForeign : Receive(f)
  \/ \E p \in {Null} \cup Descs : Wrap(p)
  \/ \E h \in Handles : ToDLPack(h)
  \/ \E h \in Handles : Destroy(h)

Spec == Init /\ [][Next]_vars

(* ownership: the same, and Handles are moved *)
NextMove ==
  \/ \E T \in LifeTypes, s \in LifeShapes, m \in LifePatterns : Create(T, s, m)
  \/ \E f \in LifeForeign : Receive(f)
  \/ \E p \in {Null} \cup Descs : Wrap(p)
  \/ \E h \in Handles : ToDLPack(h)
  \/ \E h \in Handles : Destroy(h)
  \/ \E a \in Handles : MoveConstruct(a)
  \/ \E a, b \in Handles : MoveAssign(a, b)

SpecMove == Init /\ [][NextMove]_vars

(* every operation of the class, on the Handles of one descriptor *)
NextAccess ==
  \/ /\ FreeDescs = Descs
     /\ \E T \in LifeTypes, s \in LifeShapes, m \in LifePatterns : Create(T, s, m)
  \/ /\ FreeDescs = Descs
     /\ \E f \in LifeForeign : Receive(f)
  \/ \E p \in {Null} \cup Descs : Wrap(p)
  \/ \E h \in Handles : ToDLPack(h)
  \/ \E h \in Handles : Destroy(h)
  \/ \E h \in Handles : NDim(h)
  \/ \E h \in Handles, pos \in 0..MaxRank : Shape(h, pos)
  \/ \E h \in Handles : Numel(h)
  \/ \E h \in Handles, T \in LifeTypes : Data(h, T)
  \/ \E h \in Handles, T \in LifeTypes : MutableData(h, T)
  \/ \E h \in Handles : DeviceType(h)
  \/ \E h \in Handles, T \in LifeTypes : Describe(h, T)
  \/ \E h \in Handles : WriteThrough(h)

SpecAccess == Init /\ [][NextAccess]_vars

(* every operation of the class, moves included, on the Handles of one
   descriptor whose pointer the caller gives to one Handle at a time *)
NextHandle ==
  \/ /\ FreeDescs = Descs
     /\ \E T \in LifeTypes, s \in LifeShapes, m \in LifePatterns : Create(T, s, m)
  \/ /\ FreeDescs = Descs
     /\ \E f \in LifeForeign : Receive(f)
  \/ \E p \in {Null} \cup Unowned : Wrap(p)
  \/ \E h \in Handles : ToDLPack(h)
  \/ \E h \in Handles : Destroy(h)
  \/ \E a \in Handles : MoveConstruct(a)
  \/ \E a, b \in Handles : MoveAssign(a, b)
  \/ \E h \in Handles : NDim(h)
  \/ \E h \in Handles, pos \in 0..MaxRank : Shape(h, pos)
  \/ \E h \in Handles : Numel(h)
  \/ \E h \in Handles, T \in LifeTypes : Data(h, T)
  \/ \E h \in Handles, T \in LifeTypes : MutableData(h, T)
  \/ \E h \in Handles : DeviceType(h)
  \/ \E h \in Handles, T \in LifeTypes : Describe(h, T)
  \/ \E h \in Handles : WriteThrough(h)

SpecHandle == Init /\ [][NextHandle]_vars

(* one tensor behind one Handle, over every element type, shape and
   received descriptor *)
NextData ==
  \/ /\ FreeDescs = Descs
     /\ \E T \in Types, s \in DataShapes, m \in UninitPatterns : Create(T, s, m)
  \/ /\ FreeDescs = Descs
     /\ \E f \in DataForeign : Receive(f)
  \/ /\ Unborn = Handles
     /\ \E p \in Descs : Wrap(p)
  \/ \E h \in Handles : NDim(h)
  \/ \E h \in Handles, pos \in 0..MaxRank : Shape(h, pos)
  \/ \E h \in Handles : Numel(h)
  \/ \E h \in Handles, T \in Types : Data(h, T)
  \/ \E h \in Handles, T \in Types : MutableData(h, T)
  \/ \E h \in Handles : DeviceType(h)
  \/ \E h \in Handles, T \in Types : Describe(h, T)
  \/ \E h \in Handles : WriteThrough(h)

SpecData == Init /\ [][NextData]_vars

----------------------------------------------------------------------------
(* Properties *)

AccessOps == {"n_dim", "shape", "numel", "data", "mutableData", "device_type", "Print"}

Owners(d) == {h \in Alive : tensors[h].tensor_ = d}

(* Handle h holds a pointer to a descriptor that has not been freed *)
Owning(h) ==
  /\ h \in Alive
  /\ tensors[h].tensor_ # Null
  /\ desc[tensors[h].tensor_].st = "live"

(* Handle h is empty because it exported its descriptor *)
ExportedBy(h) ==
  /\ h \in Alive
  /\ tensors[h].tensor_ = Null
  /\ \E d \in Descs : exported[d].valid /\ exported[d].by = h

Destroyed(h) == tensors[h].st = "alive" /\ tensors'[h].st = "destroyed"

(* C1: the deallocator of a descriptor is invoked exactly once when a Handle
   that still holds it is destroyed, is not invoked when an empty Handle is
   destroyed, is invoked by no other operation (export included), and so runs
   at most once for one Handle. *)
C1_DeleterExactlyOnce ==
  [][\A h \in Handles :
       /\ (Destroyed(h) /\ tensors[h].tensor_ # Null) =>
            /\ tensors'[h].calls = tensors[h].calls + 1
            /\ desc'[tensors[h].tensor_].deleter_calls =
                 desc[tensors[h].tensor_].deleter_calls + 1
            /\ \A d \in Descs \ {tensors[h].tensor_} :
                 desc'[d].deleter_calls = desc[d].deleter_calls
       /\ (Destroyed(h) /\ tensors[h].tensor_ = Null) =>
            /\ tensors'[h].calls = tensors[h].calls
            /\ \A d \in Descs : desc'[d].deleter_calls = desc[d].deleter_calls
       /\ ~Destroyed(h) => tensors'[h].calls = tensors[h].calls
       /\ (\A g \in Handles : ~Destroyed(g)) =>
            \A d \in Descs : desc'[d].deleter_calls = desc[d].deleter_calls
       /\ tensors'[h].calls <= 1]_vars

(* one Handle was destroyed while it held its descriptor, another after it
   had exported *)
C1_Witness ==
  \E h1, h2 \in Handles :
    /\ tensors[h1].st = "destroyed" /\ tensors[h1].calls = 1
    /\ tensors[h2].st = "destroyed" /\ tensors[h2].calls = 0
    /\ \E d \in Descs : exported[d].valid /\ exported[d].by = h2

(* C2: ToDLPack on a Handle that holds a descriptor succeeds, returns that
   descriptor and leaves the Handle empty; ToDLPack on the Handle once it is
   empty fails with Precondition, returns nothing and leaves it empty. *)
C2_DoubleExport ==
  [][\A h \in Handles :
       (out'.op = "ToDLPack" /\ out'.h = h) =>
         IF tensors[h].tensor_ # Null
           THEN /\ out'.status = "ok"
                /\ out'.ptr = tensors[h].tensor_
                /\ tensors'[h].tensor_ = Null
           ELSE /\ out'.status = "Precondition"
                /\ out'.ptr = Null
                /\ tensors'[h].tensor_ = Null]_vars

(* the second ToDLPack of a Handle has just failed *)
C2_Witness ==
  /\ out.op = "ToDLPack"
  /\ out.status = "Precondition"
  /\ ExportedBy(out.h)

(* C3: no live descriptor is ever held by two Handles at once. *)
C3_SingleOwner ==
  \A d \in Descs : desc[d].st = "live" => Cardinality(Owners(d)) <= 1

(* C4: an accessor called on a Handle that is empty because it exported its
   descriptor fails with Precondition. *)
C4_AccessAfterExportFails ==
  (out.op \in AccessOps /\ ExportedBy(out.h)) => out.status = "Precondition"

(* C5: a Handle made from a descriptor that an earlier Handle exported holds
   that descriptor and reports the ndim, the shape entries, the device type
   and the data pointer the earlier Handle reported before the export. *)
C5_RoundTrip ==
  [][\A d \in Descs :
       (out'.op = "Tensor" /\ out'.ptr = d /\ exported[d].valid /\ desc[d].st = "live") =>
         /\ tensors'[out'.h].tensor_ = d
         /\ n_dim(desc'[d]) = exported[d].ndim
         /\ \A i \in 0..(n_dim(desc'[d]) - 1) :
              shape(desc'[d], i) = exported[d].shape[i + 1]
         /\ device_type(desc'[d]) = exported[d].device_type
         /\ desc'[d].data = exported[d].data]_vars

(* a factory-made float tensor of shape [2,3] was exported by one Handle and
   is now held by another *)
C5_Witness ==
  /\ out.op = "Tensor"
  /\ out.ptr # Null
  /\ Owning(out.h)
  /\ exported[out.ptr].valid
  /\ exported[out.ptr].by # out.h
  /\ desc[out.ptr].shape = <<2, 3>>
  /\ desc[out.ptr].dtype.code = kDLFloat

(* the registered type-code and bit-width of each supported element type:
   32-bit float, 32-bit int, 64-bit int *)
RegisteredCode(T) == IF T = "float" THEN kDLFloat ELSE kDLInt
RegisteredBits(T) == IF T = "int64_t" THEN 64 ELSE 32

(* C6: data<T>() and mutableData<T>() on an owning Handle return the data
   pointer exactly when byte_offset is 0, the stored type-code is T's and the
   stored bit-width is 0 or T's; otherwise they raise TypeMismatch. *)
C6_TypedView ==
  (out.op \in {"data", "mutableData"} /\ Owning(out.h)) =>
    LET t == desc[tensors[out.h].tensor_]
        matches == /\ t.byte_offset = 0
                   /\ t.dtype.code = RegisteredCode(out.T)
                   /\ t.dtype.bits \in {0, RegisteredBits(out.T)}
    IN  IF matches
          THEN out.status = "ok" /\ out.ptr = t.data
          ELSE out.status = "TypeMismatch" /\ out.ptr = Null

(* a tensor created as 32-bit int has just rejected a 64-bit-int view *)
C6_Witness ==
  /\ out.op = "data"
  /\ out.T = "int64_t"
  /\ out.status = "TypeMismatch"
  /\ Owning(out.h)
  /\ desc[tensors[out.h].tensor_].dtype = [code |-> kDLInt, bits |-> 32, lanes |-> 1]

(* C7: on an owning Handle n_dim() is the number of shape entries and
   numel() is the product of the shape entries, whenever that product fits
   in 64 bits, except that it is 0 when there are no dimensions. *)
C7_NumelIsProduct ==
  /\ (out.op = "n_dim" /\ out.status = "ok" /\ Owning(out.h)) =>
       out.val = Len(desc[tensors[out.h].tensor_].shape)
  /\ (out.op = "numel" /\ out.status = "ok" /\ Owning(out.h)) =>
       LET t == desc[tensors[out.h].tensor_]
       IN  IF Len(t.shape) = 0
             THEN out.big = ZeroLimbs(Int64Limbs)
             ELSE FitsIn64(ExactProduct(t.shape)) =>
                    Widen(out.big, WideLimbs) = ExactProduct(t.shape)

(* numel() of a fresh tensor of shape [65536, 65536] has returned 2^32 *)
C7_Witness ==
  /\ out.op = "numel"
  /\ out.status = "ok"
  /\ Owning(out.h)
  /\ desc[tensors[out.h].tensor_].shape = <<65536, 65536>>
  /\ out.big = <<0, 0, 0, 0, 1, 0, 0, 0>>

(* C8: the number of elements the factory allocates for a non-empty shape
   whose product fits in 64 bits is that product, and so equals numel(). *)
C8_FactoryAllocatesProduct ==
  \A d \in Descs :
    (desc[d].st = "live" /\ Len(desc[d].shape) > 0
       /\ FitsIn64(ExactProduct(desc[d].shape))) =>
      /\ Widen(desc[d].alloc, WideLimbs) = ExactProduct(desc[d].shape)
      /\ desc[d].alloc = numel(desc[d])

RECURSIVE SumOfElems(_, _)
SumOfElems(m, n) == IF n = 0 THEN 0 ELSE Elem(m, n - 1) + SumOfElems(m, n - 1)

(* C9: Print<T> of a tensor of n elements lists the first min(n, 10)
   elements and reports the sum of all n. *)
C9_ListsAtMostTen ==
  (out.op = "Print" /\ out.status = "ok" /\ Owning(out.h)) =>
    LET t == desc[tensors[out.h].tensor_]
        n == SmallProduct(t.shape)
        k == IF t.ndim = 0 THEN 0 ELSE IF n < 10 THEN n ELSE 10
    IN  /\ out.listed = [i \in 1..k |-> Elem(t.mem, i - 1)]
        /\ out.sum = IF t.ndim = 0 THEN 0 ELSE SumOfElems(t.mem, n)

(* the state of Handle h and the descriptor fields of every descriptor are
   the same before and after the step *)
SameDescriptor(d) ==
  /\ desc'[d].st = desc[d].st
  /\ desc'[d].shape = desc[d].shape
  /\ desc'[d].ndim = desc[d].ndim
  /\ desc'[d].strides_null = desc[d].strides_null
  /\ desc'[d].strides = desc[d].strides
  /\ desc'[d].dtype = desc[d].dtype
  /\ desc'[d].ctx = desc[d].ctx
  /\ desc'[d].byte_offset = desc[d].byte_offset
  /\ desc'[d].data = desc[d].data

(* C10: a Handle made from a descriptor starts owning it; the pointer a
   Handle holds changes only from a descriptor to empty and only by a
   successful ToDLPack of that Handle; an empty Handle stays empty; and the
   accessors change neither any Handle nor any descriptor field. *)
C10_HandleStateMachine ==
  [][\A h \in Handles :
       /\ (tensors[h].st = "unborn" /\ tensors'[h].st # "unborn" /\ out'.ptr # Null) =>
            tensors'[h] = [st |-> "alive", tensor_ |-> out'.ptr, calls |-> 0]
       /\ (tensors[h].st # "unborn" /\ tensors'[h].tensor_ # tensors[h].tensor_) =>
            /\ tensors[h].tensor_ # Null
            /\ tensors'[h].tensor_ = Null
            /\ out'.op = "ToDLPack" /\ out'.h = h /\ out'.status = "ok"
       /\ (tensors[h].st # "unborn" /\ tensors[h].tensor_ = Null) =>
            tensors'[h].tensor_ = Null
       /\ out'.op \in AccessOps =>
            /\ tensors' = tensors
            /\ \A d \in Descs : SameDescriptor(d)]_vars

(* C10, amended: a Handle made from a descriptor, or moved from a Handle that
   holds one, starts owning it; the pointer a Handle holds changes only to
   empty by a successful ToDLPack of that Handle, to empty by the Handle being
   the source of a move, or to the pointer of the source by a move assignment
   to that Handle, which runs the deleter of the descriptor the Handle held;
   and the accessors change neither any Handle nor any descriptor field. *)
C10_StateMachineWithMoves ==
  [][/\ \A h \in Handles :
          /\ (tensors[h].st = "unborn" /\ tensors'[h].st # "unborn" /\ out'.ptr # Null) =>
               /\ tensors'[h] = [st |-> "alive", tensor_ |-> out'.ptr, calls |-> 0]
               /\ out'.op \in {"Tensor", "move_ctor"}
               /\ out'.op = "move_ctor" => out'.ptr = tensors[out'.src].tensor_
          /\ (tensors[h].st # "unborn" /\ tensors'[h].tensor_ # tensors[h].tensor_) =>
               \/ /\ out'.op = "ToDLPack" /\ out'.h = h /\ out'.status = "ok"
                  /\ tensors'[h].tensor_ = Null
               \/ /\ out'.op \in {"move_ctor", "move_assign"} /\ out'.src = h
                  /\ tensors'[h].tensor_ = Null
               \/ /\ out'.op = "move_assign" /\ out'.h = h /\ out'.src # h
                  /\ tensors'[h].tensor_ = tensors[out'.src].tensor_
     /\ (out'.op = "move_assign" /\ out'.h # out'.src
           /\ tensors[out'.h].tensor_ # Null) =>
          desc'[tensors[out'.h].tensor_].deleter_calls =
            desc[tensors[out'.h].tensor_].deleter_calls + 1
     /\ out'.op \in AccessOps =>
          /\ tensors' = tensors
          /\ \A d \in Descs : SameDescriptor(d)]_vars

(* a Handle that was empty after its export owns a descriptor again, by a
   move assignment that left the source empty *)
C10_Witness ==
  /\ out.op = "move_assign"
  /\ Owning(out.h)
  /\ tensors[out.src].tensor_ = Null
  /\ \E d \in Descs : exported[d].valid /\ exported[d].by = out.h

====
